---- MODULE Spec2Model ----
(***************************************************************************)
(* State-machine model of gallery_dl/extractor/bluesky.py: the BlueskyAPI  *)
(* session (authenticate / _authenticate_impl / _refresh_token_cache),     *)
(* the request loop _call and the cursor walk _pagination, run against a   *)
(* nondeterministic server.                                                *)
(*                                                                         *)
(* Python values: strings are TLA+ strings, None in a string position is   *)
(* the string "None"; tokens and header values are tuples, None in a token *)
(* position is <<>>; dicts are functions on their keys, so a missing key   *)
(* is a key outside DOMAIN.                                                *)
(***************************************************************************)
EXTENDS Integers, Sequences, FiniteSets, TLC

\* ------------------------------------------------------------- bounds
MaxReqs    == 4   \* requests one run may send
MaxPageLen == 2   \* items in one page of a response
MaxTicks   == 1   \* times the clock jumps ahead while the run is suspended
MaxPosts   == 2   \* posts the extractor is handed
MaxImages  == 2   \* images in one embed
MaxFacets  == 2   \* facets of one post
MaxOps     == 2   \* methods a caller invokes outside a pagination

\* ------------------------------------------------- program constants
AuthMaxAge      == 3600          \* @cache(maxage=3600, keyarg=1)
RefreshMaxAge   == 84 * 86400    \* @cache(maxage=84*86400, keyarg=0)
RateLimitWait   == 60            \* self.extractor.wait(seconds=60)
StatusOK        == 200           \* response.status_code != 200
StatusError     == 400           \* response.status_code < 400
StatusRateLimit == 429           \* response.status_code == 429

None     == "None"
NoToken  == <<>>
NoAuth   == <<>>
NoBody   == <<>>
NoError  == [type |-> "none"]

AuthRoot   == "https://bsky.social"
PublicRoot == "https://api.bsky.app"

CreateSession  == "com.atproto.server.createSession"
RefreshSession == "com.atproto.server.refreshSession"
AuthEndpoints  == {CreateSession, RefreshSession}

GetAuthorFeed == "app.bsky.feed.getAuthorFeed"
GetFollows    == "app.bsky.graph.getFollows"

\* The users whose entries the durable cache can hold; a run is for "alice"
\* or for nobody.
CacheKeys == {"alice", "bob"}
Usernames == {"", "alice"}
Actor     == "did:plc:actor"

\* Strings the code looks into are sequences of characters. The actors
\* callers pass: a durable id, a handle, and a handle that is the prefix
\* without its colon.
DidPrefix == <<"d", "i", "d", ":">>
DidX == <<"d", "i", "d", ":", "x">>
DidY == <<"d", "i", "d", ":", "y">>
Actors == {DidX, <<"a">>, <<"d", "i", "d">>}
PostId == <<"3k">>
NoDid == <<>>
Runs == {1, 2}
NoRun == [pc |-> "call", headers |-> <<>>, resp |-> <<>>, before |-> <<>>,
          error |-> [type |-> "none"]]
NoOp == [name |-> "none", actor |-> NoDid, stage |-> "none"]
ResolveHandle == "com.atproto.identity.resolveHandle"
GetPostThread == "app.bsky.feed.getPostThread"

\* ------------------------------------------------------------ helpers
\* Python truthiness of an optional string: None and "" are falsy.
Truthy(s) == s # None /\ s # ""

\* dict.get(key): the value, or None for a missing key.
DictGet(d, k) == IF k \in DOMAIN d THEN d[k] ELSE None

\* DictSet as "d = {k: v}": the other keys are lost.
DictOnly(d, k, v) == [x \in {k} |-> v]

\* d[k] = v on a dict: adds the key or overwrites it.
DictSet(d, k, v) == [x \in (DOMAIN d) \cup {k} |-> IF x = k THEN v ELSE d[x]]

\* "Bearer " + token
Bearer(token) == <<"Bearer">> \o token

\* "{}/xrpc/{}".format(self.root, endpoint)
Url(r, endpoint) == <<r, "xrpc", endpoint>>

\* ------------------------------------------------------ durable cache
\* An entry is a value with the time it expires; exp = 0 is an absent entry.
Absent == [val |-> NoToken, exp |-> 0]

CacheLive(c, key, t) == c[key].exp > t

\* CacheSet that keeps a live entry: the first write wins.
CacheSetIfAbsent(c, key, v, t, maxage) ==
    IF c[key].exp > t THEN c
    ELSE [c EXCEPT ![key] = [val |-> v, exp |-> t + maxage]]

CacheSet(c, key, v, t, maxage) ==
    [c EXCEPT ![key] = [val |-> v, exp |-> t + maxage]]

\* _refresh_token_cache(username): the memoized function returns None, so a
\* lookup gives the live entry's value, or None, which it then memoizes.
RefreshTokenOf(c, user, t) ==
    IF CacheLive(c, user, t) THEN c[user].val ELSE NoToken

\* RefreshCacheAfterLookup that takes the token out of the cache.
RefreshCacheLookupConsumes(c, user, t) ==
    [c EXCEPT ![user] = [val |-> NoToken, exp |-> t + RefreshMaxAge]]

RefreshCacheAfterLookup(c, user, t) ==
    IF CacheLive(c, user, t) THEN c
    ELSE CacheSet(c, user, NoToken, t, RefreshMaxAge)

VARIABLES
    username, password, root,   \* BlueskyAPI.__init__
    headers,                    \* self.headers["Authorization"], or NoAuth
    authCache, refreshCache,    \* the two durable caches, by username
    cacheTouched,               \* a cache was looked up or written
    now,                        \* wall clock, seconds
    ticks,                      \* clock jumps so far
    issued,                     \* sessions the server has issued
    pc,                         \* where the run is
    endpoint, key, params,      \* arguments of _pagination
    buffer,                     \* data[key] still to be yielded
    data,                       \* the page _pagination is working on
    served,                     \* the pages of the successful responses
    yielded,                    \* the items the consumer has received
    attemptT,                   \* time the current attempt of _call began
    error,                      \* the exception that ended the run
    log                         \* requests, responses and waits, in order

\* The state of the other operations of the process: a pagination leaves
\* it alone.
VARIABLES
    memo,                       \* the memo of resolve_handle, by handle
    op,                         \* the API method the caller is in
    results,                    \* what the methods returned, in order
    raw,                        \* the post items() was handed last
    post,                       \* the dict items() works on
    images,                     \* the images items() located in it
    emitted,                    \* the messages yielded for this post
    trace,                      \* kind and number of every message so far
    runs                        \* two runs for one username, by run

xvars == <<memo, op, results, raw, post, images, emitted, trace, runs>>

vars == <<username, password, root, headers, authCache, refreshCache,
          cacheTouched, now, ticks, issued, pc, endpoint, key, params,
          buffer, data, served, yielded, attemptT, error, log, xvars>>

\* ----------------------------------------------------------- the log
\* The requests the run has sent so far.
NReqs == Cardinality({i \in 1..Len(log) : log[i].type = "request"})

\* self.extractor.request(url, params=params, headers=self.headers)
ApiRequest(r, ep, ps, hdr) ==
    [endpoint |-> ep, url |-> Url(r, ep), auth |-> hdr, body |-> NoBody,
     params |-> ps]

\* AuthRequest that always logs in, whatever refresh token is cached.
AuthRequestAlwaysLogin(r, refresh_token, user, pw) ==
    [endpoint |-> CreateSession, url |-> Url(r, CreateSession),
     auth |-> NoAuth, body |-> [identifier |-> user, password |-> pw],
     params |-> <<>>]

\* Lines 294-310: the refresh request when a refresh token is cached, the
\* login request otherwise.
AuthRequest(r, refresh_token, user, pw) ==
    IF refresh_token # NoToken
    THEN [endpoint |-> RefreshSession, url |-> Url(r, RefreshSession),
          auth |-> Bearer(refresh_token), body |-> NoBody, params |-> <<>>]
    ELSE [endpoint |-> CreateSession, url |-> Url(r, CreateSession),
          auth |-> NoAuth, body |-> [identifier |-> user, password |-> pw],
          params |-> <<>>]

\* Log entries: a request sent at time t by an attempt that began at time
\* started, a response received at time t, a rate-limit wait.
Sent(req, t, started) ==
    [type |-> "request", endpoint |-> req.endpoint, url |-> req.url,
     auth |-> req.auth, body |-> req.body, params |-> req.params,
     t |-> t, started |-> started]
Response(of, status, d, t) ==
    [type |-> "response", of |-> of, status |-> status, data |-> d, t |-> t]
WaitEvent(seconds) == [type |-> "wait", seconds |-> seconds]

\* ---------------------------------------------------------- the server
\* The n-th page the server hands out has the items <<n, 1>> .. <<n, len>>.
Items(n, len) == [i \in 1..len |-> <<n, i>>]

CursorOf(n) == IF n % 2 = 1 THEN "c1" ELSE "c2"

\* A page: the item array under its key, empty or of MaxPageLen items, and
\* a cursor that is missing, empty, or names the next page.
Pages(k, n) ==
    UNION {
      { [x \in {k} |-> Items(n, len)],
        [x \in {k, "cursor"} |-> IF x = k THEN Items(n, len) ELSE ""],
        [x \in {k, "cursor"} |-> IF x = k THEN Items(n, len) ELSE CursorOf(n)] }
      : len \in {0, MaxPageLen} }

\* What the API answers a request for the n-th page with: the page, a rate
\* limit, or a failure.
ApiResponses(k, n) ==
    { [status |-> 200, reason |-> "OK", json |-> p] : p \in Pages(k, n) }
    \cup { [status |-> 429, reason |-> "Too Many Requests", json |-> <<>>],
           [status |-> 401, reason |-> "Unauthorized", json |-> <<>>],
           [status |-> 500, reason |-> "Internal Server Error", json |-> <<>>] }

\* Outcome with the 429 branch left out: a rate limit is a failure.
OutcomeNoRetry(status) ==
    IF status < StatusError THEN "return" ELSE "raise"

\* Outcome with the retry taken for every failure status.
OutcomeRetryAll(status) ==
    IF status < StatusError THEN "return" ELSE "retry"

\* Lines 329-338: what _call does with a response of this status.
Outcome(status) ==
    IF status < StatusError THEN "return"
    ELSE IF status = StatusRateLimit THEN "retry"
    ELSE "raise"

\* The session the server issues on its s-th successful login or refresh.
Session(s) == [accessJwt |-> <<"accessJwt", s>>, refreshJwt |-> <<"refreshJwt", s>>]

\* What the login and refresh endpoints answer with: the s-th session, or
\* a failure with its error code and message.
AuthResponses(s) ==
    { [status |-> 200, json |-> Session(s)],
      [status |-> 401,
       json |-> [error |-> "AuthenticationRequired",
                 message |-> "Invalid identifier or password"]],
      [status |-> 400,
       json |-> [error |-> "ExpiredToken",
                 message |-> "Token has been revoked"]],
      [status |-> 429,
       json |-> [error |-> "RateLimitExceeded",
                 message |-> "Rate Limit Exceeded"]] }

\* PageItems as "yield data[key]": the array as one item.
PageItemsWhole(d, k) == <<d[k]>>

\* Line 343: yield from data[key]
PageItems(d, k) == d[k]

\* Line 313: the login or refresh failed.
AuthFailed(status) == status # StatusOK

\* AuthErrorArgs with the two format arguments swapped.
AuthErrorArgsSwapped(d) == <<DictGet(d, "message"), DictGet(d, "error")>>

\* Lines 315-316: '"{}: {}"'.format(data.get("error"), data.get("message"))
AuthErrorArgs(d) == <<DictGet(d, "error"), DictGet(d, "message")>>

\* Lines 336-338: ("API request failed (%s %s)", status_code, reason)
StopArgs(resp) == <<resp.status, resp.reason>>

\* StoreRefreshToken storing the access token of the response.
StoreAccessAsRefresh(c, user, d, t) ==
    CacheSet(c, user, d["accessJwt"], t, RefreshMaxAge)

\* Line 318: _refresh_token_cache.update(self.username, data["refreshJwt"])
StoreRefreshToken(c, user, d, t) ==
    CacheSet(c, user, d["refreshJwt"], t, RefreshMaxAge)

\* Line 319: return "Bearer " + data["accessJwt"]
AccessHeader(d) == Bearer(d["accessJwt"])

\* RootFor without the else branch.
RootAlwaysAuth(user) == AuthRoot

\* Lines 214-217: the root for this username.
RootFor(user) == IF user # "" THEN AuthRoot ELSE PublicRoot

\* NeedsAuth without the cache in front of _authenticate_impl.
NeedsAuthAlways(c, user, t, hdr) == TRUE

\* NeedsAuth as "authenticate once": only while no header is set.
NeedsAuthOnce(c, user, t, hdr) == hdr = NoAuth

\* Lines 287-291: authenticate() has to run _authenticate_impl's body,
\* because its cache holds no live entry for the username.
NeedsAuth(c, user, t, hdr) == ~CacheLive(c, user, t)

\* --------------------------------------------------------------- Init
\* BlueskyAPI.__init__ on an empty cache.
Init ==
    /\ username \in Usernames
    /\ password = (IF username = "" THEN None ELSE "hunter2")
    /\ root = RootFor(username)
    /\ headers = NoAuth
    /\ authCache = [u \in CacheKeys |-> Absent]
    /\ refreshCache = [u \in CacheKeys |-> Absent]
    /\ cacheTouched = FALSE
    /\ now = 0
    /\ ticks = 0
    /\ issued = 0
    /\ pc = "idle"
    /\ endpoint = None
    /\ key = None
    /\ params = <<>>
    /\ buffer = <<>>
    /\ data = <<>>
    /\ served = <<>>
    /\ yielded = <<>>
    /\ attemptT = 0
    /\ error = NoError
    /\ log = <<>>
    /\ memo = [h \in Actors |-> NoDid]
    /\ op = NoOp
    /\ results = <<>>
    /\ raw = <<>>
    /\ post = <<>>
    /\ images = <<>>
    /\ emitted = <<>>
    /\ trace = <<>>
    /\ runs = [r \in Runs |-> NoRun]

\* ------------------------------------------------------------ actions
\* get_author_feed / get_follows: build params and enter _pagination.
Start ==
    /\ pc = "idle"
    /\ \E q \in { [endpoint |-> GetAuthorFeed, key |-> "feed",
                   params |-> [actor |-> Actor,
                               filter |-> "posts_with_media",
                               limit |-> "100"]],
                  [endpoint |-> GetFollows, key |-> "follows",
                   params |-> [actor |-> Actor, limit |-> "100"]] } :
          /\ endpoint' = q.endpoint
          /\ key' = q.key
          /\ params' = q.params
    /\ pc' = "call"
    /\ UNCHANGED <<username, password, root, headers, authCache, refreshCache,
                   cacheTouched, now, ticks, issued, buffer, data, served,
                   yielded, attemptT, error, log>>
    /\ UNCHANGED xvars

\* Where _call goes once authenticate() has returned: it sends the request.
SendApi(hdr) ==
    /\ log' = Append(log, Sent(ApiRequest(root, endpoint, params, hdr),
                               now, now))
    /\ pc' = "wait"

\* The top of _call's loop: authenticate(), then the request. authenticate
\* is util.noop without a username; with one, _authenticate_impl behind its
\* cache: a live entry is the header, a miss sends the login or refresh.
CallAttempt ==
    /\ pc = "call"
    /\ NReqs < MaxReqs
    /\ attemptT' = now
    /\ IF username = ""
       THEN /\ SendApi(headers)
            /\ UNCHANGED <<headers, refreshCache, cacheTouched>>
       ELSE /\ cacheTouched' = TRUE
            /\ IF ~NeedsAuth(authCache, username, now, headers)
               THEN /\ headers' = authCache[username].val
                    /\ SendApi(headers')
                    /\ UNCHANGED refreshCache
               ELSE /\ refreshCache' =
                         RefreshCacheAfterLookup(refreshCache, username, now)
                    /\ log' = Append(log,
                         Sent(AuthRequest(root,
                                RefreshTokenOf(refreshCache, username, now),
                                username, password), now, now))
                    /\ pc' = "auth_wait"
                    /\ UNCHANGED headers
    /\ UNCHANGED <<username, password, root, authCache, now, ticks, issued,
                   endpoint, key, params, buffer, data, served, yielded, error>>
    /\ UNCHANGED xvars

\* The login or refresh response arrives (lines 311-319): a failure raises
\* AuthenticationError; on success the refresh token is stored, the cache
\* decorator stores the returned header value, authenticate() sets the
\* header and _call sends its request.
AuthResponse ==
    /\ pc = "auth_wait"
    /\ \E resp \in AuthResponses(issued + 1) :
         IF AuthFailed(resp.status)
         THEN /\ error' = [type |-> "AuthenticationError",
                           args |-> AuthErrorArgs(resp.json)]
              /\ log' = Append(log,
                               Response("auth", resp.status, resp.json, now))
              /\ pc' = "auth_error"
              /\ UNCHANGED <<headers, authCache, refreshCache, issued>>
         ELSE /\ NReqs < MaxReqs
              /\ issued' = issued + 1
              /\ refreshCache' =
                   StoreRefreshToken(refreshCache, username, resp.json, now)
              /\ authCache' = CacheSet(authCache, username,
                                       AccessHeader(resp.json), now, AuthMaxAge)
              /\ headers' = AccessHeader(resp.json)
              /\ log' = Append(Append(log,
                               Response("auth", resp.status, resp.json, now)),
                               Sent(ApiRequest(root, endpoint, params, headers'),
                                    now, attemptT))
              /\ pc' = "wait"
              /\ UNCHANGED error
    /\ UNCHANGED <<username, password, root, cacheTouched, now, ticks,
                   endpoint, key, params, buffer, data, served, yielded,
                   attemptT>>
    /\ UNCHANGED xvars

\* The API response arrives (lines 329-338): a page goes to _pagination,
\* which starts to yield data[key] (line 343); a 429 goes to the wait; any
\* other failure raises StopExtraction.
ApiResponse ==
    /\ pc = "wait"
    /\ \E resp \in ApiResponses(key, Len(served) + 1) :
         /\ log' = Append(log, Response("api", resp.status, resp.json, now))
         /\ CASE Outcome(resp.status) = "return" ->
                   /\ data' = resp.json
                   /\ buffer' = PageItems(resp.json, key)
                   /\ served' = Append(served, resp.json)
                   /\ pc' = "yield"
                   /\ UNCHANGED error
              [] Outcome(resp.status) = "retry" ->
                   /\ pc' = "sleep"
                   /\ UNCHANGED <<data, buffer, served, error>>
              [] OTHER ->
                   /\ error' = [type |-> "StopExtraction",
                                args |-> StopArgs(resp)]
                   /\ pc' = "stopped"
                   /\ UNCHANGED <<data, buffer, served>>
    /\ UNCHANGED <<username, password, root, headers, authCache, refreshCache,
                   cacheTouched, now, ticks, issued, endpoint, key, params,
                   yielded, attemptT>>
    /\ UNCHANGED xvars

\* self.extractor.wait(seconds=60); continue
Wait ==
    /\ pc = "sleep"
    /\ now' = now + RateLimitWait
    /\ log' = Append(log, WaitEvent(RateLimitWait))
    /\ pc' = "call"
    /\ UNCHANGED <<username, password, root, headers, authCache, refreshCache,
                   cacheTouched, ticks, issued, endpoint, key, params, buffer,
                   data, served, yielded, attemptT, error>>
    /\ UNCHANGED xvars

\* yield from data[key]: the consumer takes the next item.
Yield ==
    /\ pc = "yield"
    /\ buffer # <<>>
    /\ yielded' = Append(yielded, Head(buffer))
    /\ buffer' = Tail(buffer)
    /\ UNCHANGED <<username, password, root, headers, authCache, refreshCache,
                   cacheTouched, now, ticks, issued, pc, endpoint, key, params,
                   data, served, attemptT, error, log>>
    /\ UNCHANGED xvars

\* Lines 345-348: the page is exhausted; stop, or carry its cursor on.
PageEnd ==
    /\ pc = "yield"
    /\ buffer = <<>>
    /\ LET cursor == DictGet(data, "cursor")
       IN IF ~Truthy(cursor)
          THEN /\ pc' = "done"
               /\ UNCHANGED params
          ELSE /\ params' = DictSet(params, "cursor", cursor)
               /\ pc' = "call"
    /\ UNCHANGED <<username, password, root, headers, authCache, refreshCache,
                   cacheTouched, now, ticks, issued, endpoint, key, buffer,
                   data, served, yielded, attemptT, error, log>>
    /\ UNCHANGED xvars

\* Time passes while the run waits for the network, for its consumer or
\* in the rate-limit wait: an hour, or the lifetime of a refresh token. The
\* run reads the clock only in CallAttempt and AuthResponse, so the time
\* that passed is added where the run is about to go on to one of them.
Tick ==
    /\ \/ pc \in {"auth_wait", "sleep"}
       \/ pc = "yield" /\ buffer = <<>>
    /\ ticks < MaxTicks
    /\ \E d \in {AuthMaxAge, RefreshMaxAge} : now' = now + d
    /\ ticks' = ticks + 1
    /\ UNCHANGED <<username, password, root, headers, authCache, refreshCache,
                   cacheTouched, issued, pc, endpoint, key, params, buffer,
                   data, served, yielded, attemptT, error, log>>
    /\ UNCHANGED xvars

Next ==
    \/ Start
    \/ CallAttempt
    \/ AuthResponse
    \/ ApiResponse
    \/ Wait
    \/ Yield
    \/ PageEnd
    \/ Tick

Spec == Init /\ [][Next]_vars

\* ---------------------------------------------- a server that relents
\* The API response of a server that answers 429, or hands out a cursor,
\* only finitely often: it does so only while the run has a login and a
\* request left to send, and then answers with a last page or a failure.
ApiResponseFinite ==
    /\ ApiResponse
    /\ NReqs + 2 > MaxReqs =>
          LET resp == log'[Len(log')]
          IN /\ resp.status # StatusRateLimit
             /\ resp.status = StatusOK =>
                   \/ "cursor" \notin DOMAIN resp.data
                   \/ resp.data["cursor"] = ""

Run ==
    \/ Start
    \/ CallAttempt
    \/ AuthResponse
    \/ ApiResponseFinite
    \/ Wait
    \/ Yield
    \/ PageEnd

LiveNext ==
    \/ Run
    \/ Tick

\* The run is driven to exhaustion: the consumer takes every item, every
\* request is answered, every wait ends.
SpecLive == Init /\ [][LiveNext]_vars /\ WF_vars(Run)

\* ------------------------------------------- the non-paginated methods
\* StartsWith as "actor == prefix".
StartsWithEquals(s, prefix) == s = prefix

\* actor.startswith(prefix)
StartsWith(s, prefix) ==
    /\ Len(s) >= Len(prefix)
    /\ SubSeq(s, 1, Len(prefix)) = prefix

\* @memcache(keyarg=1): the memo holds a value for the handle.
MemoHit(m, handle) == m[handle] # NoDid

\* MemoSet that forgets: resolve_handle without its decorator.
MemoForget(m, handle, did) == m

\* @memcache(keyarg=1): the returned value is kept under the handle, for
\* as long as the process lives.
MemoSet(m, handle, did) == [m EXCEPT ![handle] = did]

\* "at://{}/app.bsky.feed.post/{}".format(did, post_id)
PostUri(did, post_id) ==
    <<"at://">> \o did \o <<"/app.bsky.feed.post/">> \o post_id

\* ThreadResult that reads the cursor of the response as well.
ThreadResultWithCursor(d) ==
    IF "cursor" \in DOMAIN d THEN <<d["thread"], d["cursor"]>>
                             ELSE <<d["thread"]>>

\* Line 269: (self._call(endpoint, params)["thread"],)
ThreadResult(d) == <<d["thread"]>>

\* What the server may answer to resolveHandle and to getPostThread: it
\* may name either did for a handle, and a thread response may carry a
\* cursor field.
CallResponses(ep) ==
    (IF ep = ResolveHandle
     THEN { [status |-> 200, reason |-> "OK", json |-> [did |-> d]] :
              d \in {DidX, DidY} }
     ELSE { [status |-> 200, reason |-> "OK", json |-> j] :
              j \in { [thread |-> "T1"],
                      [thread |-> "T2", cursor |-> "c1"] } })
    \cup { [status |-> 429, reason |-> "Too Many Requests", json |-> <<>>],
           [status |-> 500, reason |-> "Internal Server Error", json |-> <<>>] }

\* The method has its did (lines 266-269, 283-285): _did_from_actor
\* returns it to its caller, get_post_thread goes on to its _call.
Proceed(name, actor, did) ==
    IF name = "_did_from_actor"
    THEN /\ results' = Append(results,
                              [op |-> name, actor |-> actor, value |-> did])
         /\ op' = NoOp
         /\ pc' = "idle"
         /\ UNCHANGED <<endpoint, params>>
    ELSE /\ endpoint' = GetPostThread
         /\ params' = [uri |-> PostUri(did, PostId)]
         /\ op' = [name |-> name, actor |-> actor, stage |-> "thread"]
         /\ pc' = "call"
         /\ UNCHANGED results

\* Lines 282-285 and 276-280: a did is returned as it is, a handle goes
\* to resolve_handle, which answers from its memo or enters _call.
Enter(name, actor) ==
    /\ IF StartsWith(actor, DidPrefix)
       THEN Proceed(name, actor, actor)
       ELSE IF MemoHit(memo, actor)
            THEN Proceed(name, actor, memo[actor])
            ELSE /\ endpoint' = ResolveHandle
                 /\ params' = [handle |-> actor]
                 /\ op' = [name |-> name, actor |-> actor,
                           stage |-> "resolve_handle"]
                 /\ pc' = "call"
                 /\ UNCHANGED results
    /\ UNCHANGED <<username, password, root, headers, authCache, refreshCache,
                   cacheTouched, now, ticks, issued, key, buffer, data,
                   served, yielded, attemptT, error, log, memo>>
    /\ UNCHANGED <<raw, post, images, emitted, trace, runs>>

\* A caller resolves an actor.
DidFromActor ==
    /\ pc = "idle"
    /\ Len(results) < MaxOps
    /\ \E actor \in Actors : Enter("_did_from_actor", actor)

\* A caller asks for the thread of a post.
GetPostThreadCall ==
    /\ pc = "idle"
    /\ Len(results) < MaxOps
    /\ \E actor \in Actors : Enter("get_post_thread", actor)

\* The response to a _call outside _pagination arrives (lines 329-338):
\* resolve_handle takes ["did"], which the memo keeps, and its caller
\* goes on; get_post_thread wraps ["thread"]; a 429 goes to the wait; any
\* other failure raises StopExtraction through all of them.
CallResponse ==
    /\ pc = "wait"
    /\ \E resp \in CallResponses(endpoint) :
         /\ log' = Append(log, Response("api", resp.status, resp.json, now))
         /\ CASE Outcome(resp.status) = "return" ->
                   IF op.stage = "resolve_handle"
                   THEN /\ memo' = MemoSet(memo, op.actor, resp.json["did"])
                        /\ Proceed(op.name, op.actor, resp.json["did"])
                        /\ UNCHANGED error
                   ELSE /\ results' = Append(results,
                               [op |-> op.name, actor |-> op.actor,
                                value |-> ThreadResult(resp.json)])
                        /\ op' = NoOp
                        /\ pc' = "idle"
                        /\ UNCHANGED <<memo, endpoint, params, error>>
              [] Outcome(resp.status) = "retry" ->
                   /\ pc' = "sleep"
                   /\ UNCHANGED <<xvars, endpoint, params, error>>
              [] OTHER ->
                   /\ error' = [type |-> "StopExtraction",
                                args |-> StopArgs(resp)]
                   /\ pc' = "stopped"
                   /\ UNCHANGED <<xvars, endpoint, params>>
    /\ UNCHANGED <<username, password, root, headers, authCache, refreshCache,
                   cacheTouched, now, ticks, issued, key, buffer, data,
                   served, yielded, attemptT>>
    /\ UNCHANGED <<raw, post, images, emitted, trace, runs>>

CallsNext ==
    \/ DidFromActor
    \/ GetPostThreadCall
    \/ CallAttempt
    \/ AuthResponse
    \/ CallResponse
    \/ Wait
    \/ Tick

SpecCalls == Init /\ [][CallsNext]_vars

\* ------------------------------------------------------------- items()
\* dict.update and del
DictUpdate(d, e) ==
    [x \in (DOMAIN d) \cup (DOMAIN e) |-> IF x \in DOMAIN e THEN e[x] ELSE d[x]]
DictDel(d, k) == [x \in (DOMAIN d) \ {k} |-> d[x]]

\* s.rpartition("/")[2]: what follows the last slash, or all of s.
RECURSIVE AfterLastSlash(_)
AfterLastSlash(s) ==
    IF s = <<>> \/ s[Len(s)] = "/"
    THEN <<>>
    ELSE Append(AfterLastSlash(SubSeq(s, 1, Len(s) - 1)), s[Len(s)])

\* The posts a feed hands to items(). The i-th image of an embed; every
\* other image comes without its aspect ratio.
Image(i) ==
    LET file == [alt |-> <<"alt", i>>,
                 image |-> [ref |-> [x \in {"$link"} |-> <<"cid", i>>],
                            mimeType |-> <<"i", "/", "j">>]]
    IN IF i % 2 = 1
       THEN DictSet(file, "aspectRatio", [width |-> "w", height |-> "h"])
       ELSE file
Images(n) == [i \in 1..n |-> Image(i)]

\* The embeds: images, a record with media, media without images next to
\* images that are not looked at, and a link card.
Embeds ==
    UNION { { [images |-> Images(n)],
              [media |-> [images |-> Images(n)], record |-> "quoted"],
              [media |-> [video |-> "v"], images |-> Images(n)] } :
            n \in 0..MaxImages }
    \cup { [external |-> "card"] }

\* The first feature of a facet, by what keys it has, and the j-th facet
\* of a post; one kind of facet has a second feature.
FirstFeatures(j) ==
    { [tag |-> <<"x", j>>], [did |-> <<"y", j>>], [uri |-> <<"z", j>>],
      [tag |-> <<"x", j>>, did |-> <<"y", j>>],
      [did |-> <<"y", j>>, uri |-> <<"z", j>>],
      [other |-> <<"o", j>>] }
FacetsAt(j) ==
    { [features |-> <<f>>] : f \in FirstFeatures(j) }
    \cup { [features |-> <<[uri |-> <<"z", j>>], [tag |-> <<"x", j>>]>>] }
FacetLists ==
    UNION { { fs \in [1..n -> UNION {FacetsAt(j) : j \in 1..n}] :
                \A j \in 1..n : fs[j] \in FacetsAt(j) } :
            n \in 0..MaxFacets }

\* A post has an embed, or facets, or one image and at most one facet, or
\* neither.
PostIds == <<"1", "2", "3", "4">>
Records ==
    LET r0 == [createdAt |-> <<"2024-01-02T03:04:05", ".678Z">>,
               text |-> "text"]
        r1 == DictSet(r0, "embed", [images |-> Images(1)])
    IN {r0} \cup {DictSet(r0, "embed", e) : e \in Embeds}
            \cup {DictSet(r0, "facets", fs) : fs \in FacetLists}
            \cup {DictSet(r1, "facets", fs) :
                    fs \in {x \in FacetLists : Len(x) <= 1}}
PostsIn(k) ==
    { [post |-> [uri |-> <<"a", "t", ":", "/", "/", "d", "/", "p", "/",
                           PostIds[k]>>,
                 author |-> [did |-> "did:plc:author", handle |-> "h"],
                 record |-> r]] : r \in Records }

\* Lines 39-45: the images of the post, under embed.media or under embed.
LocateImages(p) ==
    IF "embed" \in DOMAIN p
    THEN LET embed == p["embed"]
             media == IF "media" \in DOMAIN embed THEN embed["media"]
                                                 ELSE embed
         IN IF "images" \in DOMAIN media THEN media["images"] ELSE <<>>
    ELSE <<>>

\* FeatureKinds with "if" for "elif": every key that is present counts.
FeatureKindsAll(features) ==
    {k \in {"tag", "did", "uri"} : k \in DOMAIN features}

\* Lines 54-59: the list the feature goes to: tag, else did, else uri.
FeatureKinds(features) ==
    IF "tag" \in DOMAIN features THEN {"tag"}
    ELSE IF "did" \in DOMAIN features THEN {"did"}
    ELSE IF "uri" \in DOMAIN features THEN {"uri"}
    ELSE {}

\* Lines 52-59: the loop over the facets, for one of the three lists.
RECURSIVE Collect(_, _)
Collect(facets, k) ==
    IF facets = <<>>
    THEN <<>>
    ELSE LET features == Head(facets)["features"][1]
         IN (IF k \in FeatureKinds(features) THEN <<features[k]>> ELSE <<>>)
            \o Collect(Tail(facets), k)

\* createdAt[:19], with the timestamp held as <<its first 19 characters,
\* the rest>>, and the datetime text.parse_datetime makes of it.
Prefix19(createdAt) == createdAt[1]
ParseDatetime(str) == <<"datetime", str>>

\* NextNum that does not count.
NextNumStuck(num) == num

\* Line 78: post["num"] += 1
NextNum(num) == num + 1

\* Lines 35-66: the dict that goes out with Message.Directory.
Normalize(item) ==
    LET p0 == item["post"]
        p1 == DictDel(DictUpdate(p0, p0["record"]), "record")
        p2 == IF "facets" \in DOMAIN p1
              THEN DictUpdate(p1, [hashtags |-> Collect(p1["facets"], "tag"),
                                   mentions |-> Collect(p1["facets"], "did"),
                                   uris     |-> Collect(p1["facets"], "uri")])
              ELSE DictUpdate(p1, [hashtags |-> <<>>, mentions |-> <<>>,
                                   uris |-> <<>>])
    IN DictUpdate(p2, [post_id |-> AfterLastSlash(p2["uri"]),
                       count   |-> Len(LocateImages(p1)),
                       date    |-> ParseDatetime(Prefix19(p2["createdAt"]))])

\* Lines 72-73 and 92: the url of a blob.
BlobUrl(did, link) ==
    <<"https://bsky.social/xrpc/com.atproto.sync.getBlob?did=", did,
      "&cid=", link>>

\* Lines 78-90: the dict that goes out with Message.Url for a file.
WithFile(p, file) ==
    LET aspect == IF "aspectRatio" \in DOMAIN file
                  THEN [width  |-> file["aspectRatio"]["width"],
                        height |-> file["aspectRatio"]["height"]]
                  ELSE [width |-> 0, height |-> 0]
    IN DictUpdate(p, [num         |-> NextNum(p["num"]),
                      description |-> file["alt"],
                      width       |-> aspect["width"],
                      height      |-> aspect["height"],
                      filename    |-> file["image"]["ref"]["$link"],
                      extension   |->
                          AfterLastSlash(file["image"]["mimeType"])])

apivars == <<username, password, root, headers, authCache, refreshCache,
             cacheTouched, now, ticks, issued, endpoint, key, params,
             buffer, data, served, yielded, attemptT, error, log>>

\* The posts items() has taken from self.posts() so far.
NPosts == Cardinality({i \in 1..Len(trace) : trace[i][1] = "Directory"})

\* Lines 35-70: the loop takes the next post, normalizes it and yields
\* Message.Directory; without images it goes on to the next post.
ItemsPost ==
    /\ pc \in {"idle", "items"}
    /\ NPosts < MaxPosts
    /\ \E item \in PostsIn(NPosts + 1) :
         /\ raw' = item
         /\ post' = Normalize(item)
         /\ images' = LocateImages(DictUpdate(item["post"],
                                              item["post"]["record"]))
    /\ emitted' = <<<<"Directory", post'>>>>
    /\ trace' = Append(trace, <<"Directory", post'["count"]>>)
    /\ pc' = IF images' = <<>> THEN "items" ELSE "images0"
    /\ UNCHANGED <<apivars, memo, op, results, runs>>

\* Lines 74-92: the loop over the images, which starts with num = 0:
\* the next file is counted, described and yielded with Message.Url.
ItemsUrl ==
    /\ pc \in {"images0", "images"}
    /\ LET file == Head(images)
           p == IF pc = "images0" THEN DictSet(post, "num", 0) ELSE post
       IN /\ post' = WithFile(p, file)
          /\ emitted' = Append(emitted,
                 <<"Url", BlobUrl(p["author"]["did"], post'["filename"]),
                   post'>>)
          /\ trace' = Append(trace, <<"Url", post'["num"]>>)
    /\ images' = Tail(images)
    /\ pc' = IF images' = <<>> THEN "items" ELSE "images"
    /\ UNCHANGED <<apivars, memo, op, results, raw, runs>>

\* self.posts() is exhausted.
ItemsEnd ==
    /\ pc \in {"idle", "items"}
    /\ pc' = "items_done"
    /\ UNCHANGED <<apivars, xvars>>

ItemsNext ==
    \/ ItemsPost
    \/ ItemsUrl
    \/ ItemsEnd

SpecItems == Init /\ [][ItemsNext]_vars

\* ------------------------------------------- two runs for one username
\* Two runs for the username "alice" share the two caches and the clock;
\* each has its own headers and is in its first _call. No lock spans the
\* steps of a run: every cache lookup and every cache write is a step of
\* its own, and the other run may take steps in between.
\* The caches the runs find: empty, or as an earlier run that was issued
\* session 0 at time 0 left them, seen before or after its access
\* credential expired.
InitTwo ==
    /\ username = "alice"
    /\ password = "hunter2"
    /\ root = RootFor(username)
    /\ headers = NoAuth
    /\ \E found \in {"empty", "live", "expired"} :
         LET empty == [u \in CacheKeys |-> Absent]
         IN /\ authCache = IF found = "empty" THEN empty
                           ELSE CacheSet(empty, username,
                                         AccessHeader(Session(0)), 0,
                                         AuthMaxAge)
            /\ refreshCache = IF found = "empty" THEN empty
                              ELSE StoreRefreshToken(empty, username,
                                                     Session(0), 0)
            /\ now = IF found = "expired" THEN AuthMaxAge ELSE 0
    /\ cacheTouched = FALSE
    /\ ticks = 0
    /\ issued = 0
    /\ pc = "two"
    /\ endpoint = GetAuthorFeed
    /\ key = "feed"
    /\ params = [actor |-> Actor, filter |-> "posts_with_media",
                 limit |-> "100"]
    /\ buffer = <<>>
    /\ data = <<>>
    /\ served = <<>>
    /\ yielded = <<>>
    /\ attemptT = 0
    /\ error = NoError
    /\ log = <<>>
    /\ memo = [h \in Actors |-> NoDid]
    /\ op = NoOp
    /\ results = <<>>
    /\ raw = <<>>
    /\ post = <<>>
    /\ images = <<>>
    /\ emitted = <<>>
    /\ trace = <<>>
    /\ runs = [r \in Runs |-> NoRun]

\* What a run adds to the log: its requests and responses, and the cache
\* writes it makes.
By(r, event) == [run |-> r] @@ event
WriteEvent(cache, v) == [type |-> "write", cache |-> cache, val |-> v]

twovars == <<username, password, root, headers, cacheTouched, ticks, pc,
             endpoint, key, params, buffer, data, served, yielded, attemptT,
             error, memo, op, results, raw, post, images, emitted, trace>>

\* Lines 287-290: authenticate() looks the username up in the cache of
\* _authenticate_impl: a live entry is the header and _call sends its
\* request; on a miss the body of _authenticate_impl is entered.
TwoAuthLookup(r) ==
    /\ runs[r].pc = "call"
    /\ IF ~NeedsAuth(authCache, username, now, runs[r].headers)
       THEN /\ runs' = [runs EXCEPT
                 ![r].headers = authCache[username].val,
                 ![r].pc = "sent"]
            /\ log' = Append(log, By(r, Sent(ApiRequest(root, endpoint,
                                 params, authCache[username].val), now, now)))
       ELSE /\ runs' = [runs EXCEPT
                 ![r].before = [auth |-> authCache[username],
                                refresh |-> refreshCache[username]],
                 ![r].pc = "refresh_lookup"]
            /\ UNCHANGED log
    /\ UNCHANGED <<twovars, authCache, refreshCache, now, issued>>

\* Lines 294-310: the refresh token is looked up, which memoizes None on
\* a miss, and the refresh or login request is sent.
TwoRefreshLookup(r) ==
    /\ runs[r].pc = "refresh_lookup"
    /\ refreshCache' = RefreshCacheAfterLookup(refreshCache, username, now)
    /\ log' = log
         \o (IF ~CacheLive(refreshCache, username, now)
             THEN <<By(r, WriteEvent("refresh_token", NoToken))>>
             ELSE <<>>)
         \o <<By(r, Sent(AuthRequest(root,
                            RefreshTokenOf(refreshCache, username, now),
                            username, password), now, now))>>
    /\ runs' = [runs EXCEPT ![r].pc = "auth_wait"]
    /\ UNCHANGED <<twovars, authCache, now, issued>>

\* Lines 311-316: the response arrives; a failure raises
\* AuthenticationError and ends the run.
TwoAuthResponse(r) ==
    /\ runs[r].pc = "auth_wait"
    /\ \E resp \in AuthResponses(issued + 1) :
         /\ log' = Append(log, By(r, Response("auth", resp.status,
                                              resp.json, now)))
         /\ IF AuthFailed(resp.status)
            THEN /\ runs' = [runs EXCEPT
                      ![r].error = [type |-> "AuthenticationError",
                                    args |-> AuthErrorArgs(resp.json)],
                      ![r].pc = "auth_error"]
                 /\ UNCHANGED issued
            ELSE /\ runs' = [runs EXCEPT ![r].resp = resp.json,
                                         ![r].pc = "store_refresh"]
                 /\ issued' = issued + 1
    /\ UNCHANGED <<twovars, authCache, refreshCache, now>>

\* Line 318: the refresh token of the response is stored.
TwoStoreRefresh(r) ==
    /\ runs[r].pc = "store_refresh"
    /\ refreshCache' = StoreRefreshToken(refreshCache, username,
                                         runs[r].resp, now)
    /\ log' = Append(log, By(r, WriteEvent("refresh_token",
                                           runs[r].resp["refreshJwt"])))
    /\ runs' = [runs EXCEPT ![r].pc = "store_access"]
    /\ UNCHANGED <<twovars, authCache, now, issued>>

\* Lines 319, 288 and 327: the decorator stores the returned header,
\* authenticate() sets it and _call sends its request.
TwoStoreAccess(r) ==
    /\ runs[r].pc = "store_access"
    /\ authCache' = CacheSet(authCache, username,
                             AccessHeader(runs[r].resp), now, AuthMaxAge)
    /\ runs' = [runs EXCEPT ![r].headers = AccessHeader(runs[r].resp),
                            ![r].pc = "sent"]
    /\ log' = log
         \o <<By(r, WriteEvent("authenticate", AccessHeader(runs[r].resp))),
              By(r, Sent(ApiRequest(root, endpoint, params,
                                    AccessHeader(runs[r].resp)), now, now))>>
    /\ UNCHANGED <<twovars, refreshCache, now, issued>>

TwoNext ==
    \/ \E r \in Runs : TwoAuthLookup(r)
    \/ \E r \in Runs : TwoRefreshLookup(r)
    \/ \E r \in Runs : TwoAuthResponse(r)
    \/ \E r \in Runs : TwoStoreRefresh(r)
    \/ \E r \in Runs : TwoStoreAccess(r)

SpecTwo == InitTwo /\ [][TwoNext]_vars

\* =====================================================================
\* Properties
\* =====================================================================
\* The item arrays of a sequence of pages, one after the other.
RECURSIVE Flat(_, _)
Flat(pages, k) ==
    IF pages = <<>> THEN <<>> ELSE pages[1][k] \o Flat(Tail(pages), k)

HasCursor(page) == "cursor" \in DOMAIN page /\ page["cursor"] # ""

LogIdx == 1..Len(log)

ApiReqIdx  == {i \in LogIdx : log[i].type = "request"
                              /\ log[i].endpoint \notin AuthEndpoints}
AuthReqIdx == {i \in LogIdx : log[i].type = "request"
                              /\ log[i].endpoint \in AuthEndpoints}
ApiRespIdx(statuses) ==
    {i \in LogIdx : log[i].type = "response" /\ log[i].of = "api"
                    /\ log[i].status \in statuses}
AuthOkIdx  == {i \in LogIdx : log[i].type = "response" /\ log[i].of = "auth"
                              /\ log[i].status = 200}
AuthBadIdx == {i \in LogIdx : log[i].type = "response" /\ log[i].of = "auth"
                              /\ log[i].status # 200}

\* API responses with a status >= 400 other than 429.
RejectedIdx ==
    {i \in LogIdx : log[i].type = "response" /\ log[i].of = "api"
                    /\ log[i].status >= 400 /\ log[i].status # 429}

\* The largest element of a non-empty set of log positions.
Last(S) == CHOOSE i \in S : \A j \in S : j <= i

\* C1: pagination yields the pages' items page by page, in array order,
\* nothing twice, dropped or reordered: what was yielded, followed by what
\* is left of the current page, is always the concatenation of the pages
\* served so far. The walk ends exactly on the first page without a cursor,
\* having made one successful call per page: for pages P1(c1), P2(c2),
\* P3(no cursor) it ends after exactly 3 successful calls with all items of
\* P1, P2, P3 yielded in that order.
C1_PaginationYieldsPagesInOrder ==
    /\ yielded \o buffer = Flat(served, key)
    /\ Len(served) = Cardinality(ApiRespIdx({200}))
    /\ pc # "yield" => buffer = <<>>
    /\ \A n \in 1..Len(served) - 1 : HasCursor(served[n])
    /\ pc = "done" => /\ served # <<>>
                      /\ ~HasCursor(served[Len(served)])
                      /\ yielded = Flat(served, key)
    /\ (served # <<>> /\ ~HasCursor(served[Len(served)]))
           => pc \in {"yield", "done"}
    /\ (/\ Len(served) = 3
        /\ DictGet(served[1], "cursor") = "c1"
        /\ DictGet(served[2], "cursor") = "c2"
        /\ "cursor" \notin DOMAIN served[3]
        /\ buffer = <<>> /\ pc # "yield")
           => /\ pc = "done"
              /\ yielded = served[1][key] \o served[2][key] \o served[3][key]
              /\ Cardinality(ApiRespIdx({200})) = 3
              /\ log[Len(log)].type = "response"

C1_Witness ==
    /\ pc = "done"
    /\ Len(served) = 3
    /\ DictGet(served[1], "cursor") = "c1"
    /\ DictGet(served[2], "cursor") = "c2"
    /\ "cursor" \notin DOMAIN served[3]
    /\ Len(yielded) = 3 * MaxPageLen

\* C2: a 429 answer to an API request is followed by a wait of 60 seconds
\* and then by the same request again (same url and params, after a login
\* or refresh if the credential has expired meanwhile); it consumes no page,
\* yields no item and raises no error, however many 429s came before it;
\* each page comes from exactly one successful response.
C2_RateLimitRetriesSameCall ==
    /\ \A i \in ApiRespIdx({429}) :
         /\ i < Len(log) => log[i + 1] = [type |-> "wait", seconds |-> 60]
         /\ i = Len(log) => pc = "sleep" /\ error = [type |-> "none"]
         /\ \A j \in ApiReqIdx :
              (j > i /\ \A m \in ApiReqIdx : ~(i < m /\ m < j))
                 => /\ log[j].url = log[Last({m \in ApiReqIdx : m < i})].url
                    /\ log[j].params = log[Last({m \in ApiReqIdx : m < i})].params
                    /\ log[j].t >= log[i].t + 60
    /\ Len(served) = Cardinality(ApiRespIdx({200}))
    /\ yielded \o buffer = Flat(served, key)
    /\ error.type = "StopExtraction" =>
          log[Len(log)].status \notin {200, 429}

C2_Witness ==
    /\ \E i \in ApiRespIdx({429}) :
         /\ i + 4 <= Len(log)
         /\ log[i + 3].type = "response" /\ log[i + 3].status = 429
         /\ \E j \in ApiRespIdx({200}) : j > i + 3
    /\ Len(served) = 1
    /\ Len(yielded) = MaxPageLen
    /\ pc = "done"

\* C3: an API response with a status >= 400 other than 429 ends the run at
\* once with StopExtraction carrying the status and reason: nothing is sent
\* or yielded after it, and what was yielded is exactly the items of the
\* pages served before it.
C3_FailureStopsExtraction ==
    \A i \in LogIdx :
      (log[i].type = "response" /\ log[i].of = "api"
       /\ log[i].status >= 400 /\ log[i].status # 429)
         => /\ i = Len(log)
            /\ pc = "stopped"
            /\ error.type = "StopExtraction"
            /\ error.args[1] = log[i].status
            /\ buffer = <<>>
            /\ yielded = Flat(served, key)

C3_Witness ==
    /\ pc = "stopped"
    /\ Len(served) = 2
    /\ Len(yielded) = 2 * MaxPageLen
    /\ log[Len(log)].status = 500

\* The successful login or refresh responses received before log entry i,
\* other than the one the attempt that sent entry i received itself.
EarlierAuthOk(i) == {j \in AuthOkIdx : j < i - 1}

\* C4: with a username, no login or refresh is sent while a credential
\* cached less than 3600 s ago exists; an API request whose attempt found
\* the credential absent or 3600 s old is preceded, since the API request
\* before it, by exactly one login or refresh, and every other API request
\* by none; the call is refreshSession if a refresh token cached less than
\* 84 days ago exists and createSession if not.
C4_CachedCredentialPreventsAuthCalls ==
    username # "" =>
      /\ \A a \in AuthReqIdx :
           /\ \A j \in AuthOkIdx : j < a => log[j].t + 3600 <= log[a].t
           /\ log[a].endpoint =
                IF \E j \in AuthOkIdx : j < a /\ log[j].t + 84 * 86400 > log[a].t
                THEN "com.atproto.server.refreshSession"
                ELSE "com.atproto.server.createSession"
      /\ \A i \in ApiReqIdx :
           LET before == {m \in ApiReqIdx : m < i}
               prev == IF before = {} THEN 0 ELSE Last(before)
               calls == {a \in AuthReqIdx : prev < a /\ a < i}
               expired == \A j \in EarlierAuthOk(i) :
                             log[j].t + 3600 <= log[i].started
           IN Cardinality(calls) = IF expired THEN 1 ELSE 0

C4_Witness ==
    /\ username # ""
    /\ \E a \in AuthReqIdx :
         /\ log[a].endpoint = "com.atproto.server.refreshSession"
         /\ a + 2 \in ApiReqIdx
         /\ \E m \in ApiReqIdx : m < a /\ log[m].t + 3600 <= log[a].t

\* C5 as stated: with a username the session is authenticated on the first
\* API call, and a login or refresh replaces the credential whenever it has
\* expired and whenever the server has rejected an API request.
C5_Lazy ==
    /\ pc = "idle" => log = <<>> /\ headers = <<>> /\ ~cacheTouched
    /\ log # <<>> => /\ log[1].type = "request"
                     /\ log[1].endpoint = "com.atproto.server.createSession"

C5_ReauthOnExpiry ==
    \A i \in ApiReqIdx :
      (\A j \in EarlierAuthOk(i) : log[j].t + 3600 <= log[i].started)
         => /\ i - 1 \in AuthOkIdx
            /\ i - 2 \in AuthReqIdx
            /\ log[i].auth = <<"Bearer">> \o log[i - 1].data["accessJwt"]
            /\ \A m \in ApiReqIdx : m < i => log[m].auth # log[i].auth

C5_ReauthOnRejection ==
    \A i \in RejectedIdx :
      pc = "stopped" => \E a \in AuthReqIdx : a > i

C5_Original ==
    username # "" => C5_Lazy /\ C5_ReauthOnExpiry /\ C5_ReauthOnRejection

\* C5 amended: with a username the session is authenticated on the first
\* API call and a login or refresh replaces the credential whenever the
\* cached one has expired when an attempt starts; a rejected API request
\* (status >= 400 other than 429) is followed by no login or refresh: the
\* run stops with the header it had; a request re-issued after a 429
\* without a login or refresh in between carries the header of the
\* request that was turned down.
C5_ReauthOnExpiryOnly ==
    username # "" =>
      /\ C5_Lazy
      /\ C5_ReauthOnExpiry
      /\ \A i \in RejectedIdx :
           /\ i = Len(log)
           /\ pc = "stopped"
           /\ headers = log[Last(ApiReqIdx)].auth
      /\ \A i \in ApiRespIdx({429}) :
           i + 2 \in ApiReqIdx => log[i + 2].auth = log[i - 1].auth

C5_Witness ==
    /\ username # ""
    /\ pc = "stopped"
    /\ Cardinality(AuthReqIdx) = 2
    /\ log[Len(log)].status = 401

\* C6: a login or refresh is one request, answered before anything else is
\* sent: refreshSession with "Bearer " + the cached refresh token as its
\* Authorization header and no body when a refresh token is cached for the
\* username, createSession with {identifier, password} as body and no
\* Authorization header when none is; never createSession while a refresh
\* token is cached.
C6_RefreshIfTokenCachedElseLogin ==
    \A a \in AuthReqIdx :
      LET tokens == {j \in AuthOkIdx :
                       j < a /\ log[j].t + 84 * 86400 > log[a].t}
      IN /\ IF tokens # {}
            THEN /\ log[a].endpoint = "com.atproto.server.refreshSession"
                 /\ log[a].auth =
                      <<"Bearer">> \o log[Last(tokens)].data["refreshJwt"]
                 /\ log[a].body = <<>>
            ELSE /\ log[a].endpoint = "com.atproto.server.createSession"
                 /\ log[a].auth = <<>>
                 /\ log[a].body = [identifier |-> username,
                                   password |-> password]
         /\ log[a].url = <<"https://bsky.social", "xrpc", log[a].endpoint>>
         /\ a < Len(log) => log[a + 1].type = "response"
                            /\ log[a + 1].of = "auth"
         /\ a > 1 => log[a - 1].type # "request"

C6_Witness ==
    /\ \E a \in AuthReqIdx : log[a].endpoint = "com.atproto.server.refreshSession"
    /\ \E a \in AuthReqIdx : log[a].endpoint = "com.atproto.server.createSession"
    /\ log[Len(log)].type = "request"

\* C7: a login or refresh response with a status other than 200 ends the
\* run with AuthenticationError carrying the error code and the message of
\* the response; no request is sent after it, neither a second login or
\* refresh nor the API request.
C7_AuthFailureIsFatal ==
    \A i \in AuthBadIdx :
      /\ i = Len(log)
      /\ pc = "auth_error"
      /\ error.type = "AuthenticationError"
      /\ error.args = <<log[i].data["error"], log[i].data["message"]>>
      /\ log[i - 1].type = "request"
      /\ log[i - 1].endpoint \in AuthEndpoints
      /\ headers # <<>> => \E j \in AuthOkIdx : j < i

C7_Witness ==
    /\ pc = "auth_error"
    /\ log[Len(log)].status = 429
    /\ log[Len(log) - 1].endpoint = "com.atproto.server.refreshSession"

\* C8: after a successful login or refresh response, until the next login
\* or refresh is sent, the refresh-token entry for the username holds the
\* refresh token of that response, expiring 84 days after it, the
\* access-credential entry holds "Bearer " + the access token of that
\* response, expiring 3600 s after it, and the Authorization header is
\* that bearer value; no other user's entry is written.
C8_SuccessfulAuthUpdatesCaches ==
    /\ AuthOkIdx # {} =>
         LET j == Last(AuthOkIdx)
             bearer == <<"Bearer">> \o log[j].data["accessJwt"]
         IN /\ headers = bearer
            /\ log[j + 1].auth = bearer
            /\ (\A a \in AuthReqIdx : a < j) =>
                 /\ refreshCache[username] =
                      [val |-> log[j].data["refreshJwt"],
                       exp |-> log[j].t + 84 * 86400]
                 /\ authCache[username] =
                      [val |-> bearer, exp |-> log[j].t + 3600]
    /\ authCache["bob"] = [val |-> <<>>, exp |-> 0]
    /\ refreshCache["bob"] = [val |-> <<>>, exp |-> 0]

C8_Witness ==
    /\ Cardinality(AuthOkIdx) = 2
    /\ refreshCache[username].val = <<"refreshJwt", 2>>
    /\ authCache[username].val = <<"Bearer", "accessJwt", 2>>
    /\ log[Last(AuthReqIdx)].endpoint = "com.atproto.server.refreshSession"

\* C9: without a username no login or refresh is ever sent, no request
\* carries an Authorization header, no cache is looked up or written, and
\* every request goes to the public root, 429 retries and later pages
\* included.
C9_UnauthenticatedModeNeverAuthenticates ==
    username = "" =>
      /\ AuthReqIdx = {}
      /\ \A i \in LogIdx :
           log[i].type = "request" =>
             /\ log[i].auth = <<>>
             /\ log[i].url = <<"https://api.bsky.app", "xrpc", endpoint>>
      /\ headers = <<>>
      /\ ~cacheTouched
      /\ \A u \in CacheKeys : /\ authCache[u] = [val |-> <<>>, exp |-> 0]
                              /\ refreshCache[u] = [val |-> <<>>, exp |-> 0]
      /\ root = "https://api.bsky.app"

C9_Witness ==
    /\ username = ""
    /\ ApiRespIdx({429}) # {}
    /\ Len(served) = 2
    /\ pc = "wait"
    /\ "cursor" \in DOMAIN params

\* C10: with a username, every API request (the first of a call, a re-issue
\* after a 429 wait, the request for a further page) carries the credential
\* of the latest successful login or refresh, and that credential was less
\* than 3600 s old when the attempt that sent the request started.
C10_EveryRequestCarriesLiveCredential ==
    username # "" =>
      \A i \in ApiReqIdx :
        LET before == {j \in AuthOkIdx : j < i}
        IN /\ before # {}
           /\ log[i].auth = <<"Bearer">> \o log[Last(before)].data["accessJwt"]
           /\ log[Last(before)].t + 3600 > log[i].started
           /\ log[i].started <= log[i].t

C10_Witness ==
    /\ username # ""
    /\ \E i \in ApiRespIdx({429}) :
         /\ i + 4 \in ApiReqIdx
         /\ log[i + 2].endpoint = "com.atproto.server.refreshSession"
         /\ log[i + 4].params = log[i - 1].params

\* A dict without its "cursor" key.
NoCursor(d) == [x \in (DOMAIN d) \ {"cursor"} |-> d[x]]

\* C16: the first request of a pagination carries the caller's params and
\* no cursor; every later request, a re-issue after a 429 included, carries
\* the cursor of the latest successful response and the caller's other
\* params unchanged; the walk is done exactly when the latest successful
\* response has no cursor or an empty one and its items are consumed,
\* whether or not it had items, and goes on after an empty item array with
\* a cursor.
C16_CursorForwarding ==
    /\ \A i \in ApiReqIdx :
         LET ok == {j \in ApiRespIdx({200}) : j < i}
         IN /\ IF ok = {}
               THEN "cursor" \notin DOMAIN log[i].params
               ELSE /\ "cursor" \in DOMAIN log[i].params
                    /\ "cursor" \in DOMAIN log[Last(ok)].data
                    /\ log[i].params["cursor"] = log[Last(ok)].data["cursor"]
                    /\ log[i].params["cursor"] # ""
            /\ NoCursor(log[i].params) =
                 IF endpoint = "app.bsky.feed.getAuthorFeed"
                 THEN [actor |-> "did:plc:actor", filter |-> "posts_with_media",
                       limit |-> "100"]
                 ELSE [actor |-> "did:plc:actor", limit |-> "100"]
            /\ log[i].endpoint = endpoint
    /\ pc = "done" <=> /\ served # <<>>
                       /\ ~HasCursor(served[Len(served)])
                       /\ pc # "yield"

C16_Witness ==
    /\ pc = "done"
    /\ Len(served) = 2
    /\ served[1][key] = <<>>
    /\ served[2][key] # <<>>
    /\ DictGet(served[2], "cursor") = ""
    /\ \E i \in ApiRespIdx({429}) : "cursor" \in DOMAIN log[i - 1].params

\* C17: against a server that answers 429 only finitely often in a row and
\* in the end a page without cursor or an error status, a pagination that
\* is driven to exhaustion terminates, normally or with a fatal error. The
\* retries themselves are not limited: every wait is 60 seconds, after
\* every 429 the wait and the next attempt are possible, and a run
\* ends in an error only on a failed login or refresh or on an API status
\* >= 400 other than 429, never on a 429.
C17_TerminatesWhenServerRelents ==
    /\ <>(pc \in {"done", "stopped", "auth_error"})
    /\ [](\A i \in LogIdx : log[i].type = "wait" => log[i].seconds = 60)
    /\ [](pc = "sleep" => ENABLED Wait)
    /\ [](pc \in {"stopped", "auth_error"} =>
            /\ log[Len(log)].type = "response"
            /\ log[Len(log)].status >= 400
            /\ log[Len(log)].of = "api" => log[Len(log)].status # 429)

C17_Witness ==
    /\ pc = "done"
    /\ Cardinality(ApiRespIdx({429})) = MaxReqs - 2
    /\ Cardinality(ApiRespIdx({200})) = 1
    /\ \A i \in ApiRespIdx({429}) : i < Last(ApiRespIdx({200}))

\* ------------------------------------------------ resolving an actor
\* The actors that are handles, the resolveHandle requests for a handle
\* and their successful responses, and the calls that returned for an
\* actor.
Handles == {a \in Actors : \/ Len(a) < 4
                           \/ SubSeq(a, 1, 4) # <<"d", "i", "d", ":">>}
ResolveReqIdx(h) ==
    {i \in ApiReqIdx :
        /\ log[i].endpoint = "com.atproto.identity.resolveHandle"
        /\ log[i].params = [handle |-> h]}
ResolveOkIdx(h) == {i \in ApiRespIdx({200}) : i - 1 \in ResolveReqIdx(h)}
ReturnedIdx(a) ==
    {k \in 1..Len(results) :
        results[k].op = "_did_from_actor" /\ results[k].actor = a}

\* C11 as stated: once resolve(h) has returned for a handle h, the log
\* holds exactly one resolveHandle request for h, and every resolve(h)
\* returned the same did.
C11_Original ==
    \A h \in Handles :
      ReturnedIdx(h) # {} =>
        /\ Cardinality(ResolveReqIdx(h)) = 1
        /\ \A k \in ReturnedIdx(h) :
             results[k].value = results[Last(ReturnedIdx(h))].value

\* C11, amended: the resolve(h) calls of a process get exactly one
\* successful resolveHandle response for a handle h. The first call sends
\* the request and sends it again only after a 429; the did of the one
\* successful response is what that call and every later call return, and
\* no later call sends a request for h.
C11_OneSuccessfulResolve ==
    \A h \in Handles :
      LET reqs == ResolveReqIdx(h)
          oks  == ResolveOkIdx(h)
      IN /\ Cardinality(oks) <= 1
         /\ \A i \in reqs :
              /\ i # Last(reqs) =>
                   /\ log[i + 1].type = "response"
                   /\ log[i + 1].status = 429
              /\ oks # {} => i < Last(oks)
         /\ \A k \in ReturnedIdx(h) :
              /\ oks # {}
              /\ results[k].value = log[Last(oks)].data["did"]
         /\ op.name = "get_post_thread" /\ op.stage = "thread"
              /\ op.actor = h =>
              /\ oks # {}
              /\ params["uri"] = <<"at://">> \o log[Last(oks)].data["did"]
                                   \o <<"/app.bsky.feed.post/">> \o PostId

C11_Witness ==
    \E h \in Handles :
      /\ Cardinality(ReturnedIdx(h)) = 2
      /\ Cardinality(ResolveReqIdx(h)) = 2
      /\ Cardinality(ResolveOkIdx(h)) = 1

\* C12: resolving an actor that starts with "did:" returns the actor as
\* it is, in one step that sends nothing (the log, and with it the
\* resolveHandle and the login and refresh requests, stays as it is) and
\* leaves the memo, the caches and the header alone; get_post_thread with
\* such an actor goes straight to its own call with the actor in the uri.
\* No resolveHandle request is ever sent for such an actor.
C12_DidIsReturnedUnchanged ==
    /\ [](\A d \in Actors \ Handles :
            /\ ResolveReqIdx(d) = {}
            /\ op.actor = d => op.stage = "thread"
            /\ \A k \in ReturnedIdx(d) : results[k].value = d)
    /\ [][\A d \in Actors \ Handles :
            /\ Len(results') = Len(results) + 1
                 /\ results'[Len(results')].op = "_did_from_actor"
                 /\ results'[Len(results')].actor = d =>
                 /\ results'[Len(results')].value = d
                 /\ pc = "idle" /\ pc' = "idle"
                 /\ UNCHANGED <<log, memo, authCache, refreshCache, headers>>
            /\ op.name = "none" /\ op'.name = "get_post_thread"
                 /\ op'.actor = d =>
                 /\ params' = [uri |-> <<"at://">> \o d
                                  \o <<"/app.bsky.feed.post/">> \o PostId]
                 /\ endpoint' = "app.bsky.feed.getPostThread"
                 /\ UNCHANGED <<log, memo, authCache, refreshCache, headers>>
       ]_vars

C12_Witness ==
    /\ \E h \in Handles : memo[h] # <<>>
    /\ log # <<>>
    /\ \E d \in Actors \ Handles :
         /\ ReturnedIdx(d) = {Len(results)}
         /\ results[Len(results)].value = d
         /\ ResolveReqIdx(d) = {}

\* ------------------------------------------------- the thread of a post
ThreadReqIdx ==
    {i \in ApiReqIdx : log[i].endpoint = "app.bsky.feed.getPostThread"}
ThreadOkIdx == {i \in ApiRespIdx({200}) : i - 1 \in ThreadReqIdx}
ThreadResults ==
    {k \in 1..Len(results) : results[k].op = "get_post_thread"}

\* C18: every get_post_thread that returned got exactly one successful
\* getPostThread response and returned a sequence of one item, the thread
\* object of that response, whether the response has a cursor or not. A
\* getPostThread request is sent again only after a 429, no getPostThread
\* request carries a cursor, and with the successful response the method
\* has returned: the next request, if any, is the next call's.
C18_ThreadIsOneCall ==
    /\ Cardinality(ThreadOkIdx) = Cardinality(ThreadResults)
    /\ \A k \in ThreadResults :
         /\ Len(results[k].value) = 1
         /\ \E i \in ThreadOkIdx :
              /\ results[k].value[1] = log[i].data["thread"]
              /\ Cardinality({j \in ThreadOkIdx : j <= i})
                   = Cardinality({m \in ThreadResults : m <= k})
    /\ \A i \in ThreadReqIdx :
         /\ DOMAIN log[i].params = {"uri"}
         /\ i # Last(ThreadReqIdx) => log[i + 1].status \in {200, 429}
    /\ \A i \in ThreadOkIdx : i = Len(log) => pc \in {"idle", "call"}

C18_Witness ==
    /\ pc = "idle"
    /\ \E i \in ThreadOkIdx :
         /\ "cursor" \in DOMAIN log[i].data
         /\ i = Len(log)
         /\ i > 2
         /\ log[i - 2].type = "wait"
         /\ results # <<>>
         /\ results[Len(results)].value = <<log[i].data["thread"]>>
    /\ \E h \in Handles : ResolveOkIdx(h) # {}

\* ------------------------------------------------ the messages of items()
\* The record of the post items() was handed, and the images it holds:
\* embed.media.images if the embed has media, else embed.images.
RawRecord == raw["post"]["record"]
Located(r) ==
    IF "embed" \notin DOMAIN r THEN <<>>
    ELSE IF "media" \in DOMAIN r["embed"]
         THEN IF "images" \in DOMAIN r["embed"]["media"]
              THEN r["embed"]["media"]["images"] ELSE <<>>
         ELSE IF "images" \in DOMAIN r["embed"]
              THEN r["embed"]["images"] ELSE <<>>

\* The message at i of the trace ends the messages of its post.
EndsPost(i) ==
    \/ trace[i] = <<"Directory", 0>>
    \/ /\ trace[i][1] = "Url"
       /\ i > trace[i][2]
       /\ trace[i - trace[i][2]] = <<"Directory", trace[i][2]>>

\* C14: for a post with n located images items() yields one Directory
\* message with count = n, then n Url messages with num = 1..n for the
\* images in their order, and then goes on to the next post's Directory
\* message; a post without embed yields its Directory message with
\* count = 0 and no Url message.
C14_DirectoryThenNumberedMedia ==
    /\ \A i \in 1..Len(trace) :
         IF trace[i][1] = "Url"
         THEN /\ i > 1
              /\ trace[i - 1] = IF trace[i][2] = 1
                                THEN <<"Directory", trace[i - 1][2]>>
                                ELSE <<"Url", trace[i][2] - 1>>
              /\ i > trace[i][2]
              /\ trace[i - trace[i][2]][1] = "Directory"
              /\ trace[i - trace[i][2]][2] >= trace[i][2]
         ELSE i > 1 => EndsPost(i - 1)
    /\ pc \in {"items", "items_done"} /\ trace # <<>> => EndsPost(Len(trace))
    /\ pc \in {"images0", "images"} => ~EndsPost(Len(trace))
    /\ emitted # <<>> =>
         LET located == Located(RawRecord)
             n == Len(located)
         IN /\ emitted[1][1] = "Directory"
            /\ emitted[1][2]["count"] = n
            /\ "num" \notin DOMAIN emitted[1][2]
            /\ Len(emitted) <= n + 1
            /\ pc \in {"items", "items_done"} => Len(emitted) = n + 1
            /\ "embed" \notin DOMAIN RawRecord => n = 0
            /\ Len(trace) >= Len(emitted)
            /\ trace[Len(trace) - Len(emitted) + 1] = <<"Directory", n>>
            /\ \A k \in 2..Len(emitted) :
                 /\ emitted[k][1] = "Url"
                 /\ emitted[k][3]["num"] = k - 1
                 /\ emitted[k][3]["count"] = n
                 /\ emitted[k][3]["filename"]
                      = located[k - 1]["image"]["ref"]["$link"]
                 /\ emitted[k][2][4] = located[k - 1]["image"]["ref"]["$link"]
                 /\ emitted[k][3]["post_id"] = emitted[1][2]["post_id"]
                 /\ trace[Len(trace) - Len(emitted) + k] = <<"Url", k - 1>>

C14_Witness ==
    /\ pc = "items_done"
    /\ trace = <<<<"Directory", 2>>, <<"Url", 1>>, <<"Url", 2>>,
                 <<"Directory", 0>>>>
    /\ "embed" \notin DOMAIN RawRecord
    /\ Len(emitted) = 1

\* The key that decides where a facet goes: the first of tag, did, uri
\* that its first feature has; and the values of the facets with key k, in
\* the order of the facets.
KeyOf(facet) ==
    LET first == facet["features"][1]
    IN IF "tag" \in DOMAIN first THEN "tag"
       ELSE IF "did" \in DOMAIN first THEN "did"
       ELSE IF "uri" \in DOMAIN first THEN "uri"
       ELSE "none"
ValuesOf(facets, k) ==
    LET HasKey(facet) == KeyOf(facet) = k
        chosen == SelectSeq(facets, HasKey)
    IN [i \in 1..Len(chosen) |-> chosen[i]["features"][1][k]]

\* C15: in the record items() yields for a post, hashtags, mentions and
\* uris hold, in facet order, the tag, did and uri values of the first
\* features of the facets whose first key in the order tag, did, uri is
\* that one: a facet is in at most one list, a facet with none of the keys
\* in none, so the three lists together are no longer than the facets;
\* without facets all three are empty. The Url messages of the post carry
\* the same three lists.
C15_FacetGoesToOneList ==
    emitted # <<>> =>
      LET meta == emitted[1][2]
      IN /\ IF "facets" \in DOMAIN RawRecord
            THEN LET facets == RawRecord["facets"]
                 IN /\ meta["hashtags"] = ValuesOf(facets, "tag")
                    /\ meta["mentions"] = ValuesOf(facets, "did")
                    /\ meta["uris"] = ValuesOf(facets, "uri")
                    /\ Len(meta["hashtags"]) + Len(meta["mentions"])
                         + Len(meta["uris"])
                       = Cardinality({j \in 1..Len(facets) :
                                        KeyOf(facets[j]) # "none"})
                    /\ Len(meta["hashtags"]) + Len(meta["mentions"])
                         + Len(meta["uris"]) <= Len(facets)
            ELSE /\ meta["hashtags"] = <<>>
                 /\ meta["mentions"] = <<>>
                 /\ meta["uris"] = <<>>
         /\ \A k \in 2..Len(emitted) :
              /\ emitted[k][3]["hashtags"] = meta["hashtags"]
              /\ emitted[k][3]["mentions"] = meta["mentions"]
              /\ emitted[k][3]["uris"] = meta["uris"]

C15_Witness ==
    /\ emitted # <<>>
    /\ "facets" \in DOMAIN RawRecord
    /\ Len(RawRecord["facets"]) = 2
    /\ DOMAIN RawRecord["facets"][1]["features"][1] = {"tag", "did"}
    /\ Len(RawRecord["facets"][2]["features"]) = 2
    /\ emitted[1][2]["hashtags"] = <<<<"x", 1>>>>
    /\ emitted[1][2]["mentions"] = <<>>
    /\ emitted[1][2]["uris"] = <<<<"z", 2>>>>

\* --------------------------------------------------------- two runs
\* What a run has in the log: its login or refresh request, the response
\* to it, its API request; and the writes to a cache, of both runs.
RunAuthReqIdx(r) == {i \in AuthReqIdx : log[i].run = r}
RunAuthRespIdx(r, statuses) ==
    {i \in LogIdx : /\ log[i].type = "response"
                    /\ log[i].run = r
                    /\ log[i].status \in statuses}
RunApiReqIdx(r) == {i \in ApiReqIdx : log[i].run = r}
WriteIdx(cache) ==
    {i \in LogIdx : log[i].type = "write" /\ log[i].cache = cache}

\* C13: when two runs for one username authenticate at the same time,
\* neither gets in the other's way. A run ends in AuthenticationError
\* only on a failure response to its own request; a run whose request was
\* answered 200 can always take its next step, stores its refresh token
\* and its header and sends its API request with the access credential of
\* its own response; and each cache entry holds what was written to it
\* last, whichever run wrote it.
C13_ConcurrentAuthenticationsBothSucceed ==
    /\ \A r \in Runs :
         /\ runs[r].pc = "auth_error"
              <=> RunAuthRespIdx(r, {400, 401, 429}) # {}
         /\ RunAuthRespIdx(r, {200}) # {} =>
              runs[r].pc \in {"store_refresh", "store_access", "sent"}
         /\ runs[r].pc = "store_refresh" => ENABLED TwoStoreRefresh(r)
         /\ runs[r].pc = "store_access" => ENABLED TwoStoreAccess(r)
         /\ runs[r].pc = "sent" <=> RunApiReqIdx(r) # {}
         /\ \A i \in RunApiReqIdx(r) :
              /\ \A j \in RunAuthRespIdx(r, {200}) :
                   /\ j < i
                   /\ log[i].auth = <<"Bearer">> \o log[j].data["accessJwt"]
              /\ runs[r].headers = log[i].auth
    /\ WriteIdx("refresh_token") # {} =>
         refreshCache["alice"].val = log[Last(WriteIdx("refresh_token"))].val
    /\ WriteIdx("authenticate") # {} =>
         authCache["alice"].val = log[Last(WriteIdx("authenticate"))].val

C13_Witness ==
    /\ \A r \in Runs : runs[r].pc = "sent" /\ RunAuthRespIdx(r, {200}) # {}
    /\ \A r \in Runs : \A q \in Runs :
         Last(RunAuthReqIdx(q)) < Last(RunAuthRespIdx(r, {200}))
    /\ log[Last(WriteIdx("refresh_token"))].run
         # log[Last(WriteIdx("authenticate"))].run

\* The other run.
Other(r) == CHOOSE q \in Runs : q # r

\* After a refresh that the server rejected, the next login or refresh
\* request for the username, if no refresh token was written in between,
\* is again a refreshSession with the same token.
NextAttemptRefreshesAgain ==
    \A r \in Runs : \A a \in RunAuthReqIdx(r) :
      \A i \in RunAuthRespIdx(r, {400, 401, 429}) :
        \A j \in RunAuthReqIdx(Other(r)) :
          /\ log[a].endpoint = "com.atproto.server.refreshSession"
          /\ i < j
          /\ \A w \in WriteIdx("refresh_token") : ~(a < w /\ w < j)
          => /\ log[j].endpoint = "com.atproto.server.refreshSession"
             /\ log[j].auth = log[a].auth

\* C19 as stated: when a run has failed to log in or refresh and nothing
\* else has touched the caches, both entries of the username are exactly
\* what they were when the run began to authenticate, and the next attempt
\* refreshes with the same token.
C19_Original ==
    /\ \A r \in Runs :
         runs[r].pc = "auth_error" /\ runs[Other(r)].pc = "call" =>
           /\ authCache["alice"] = runs[r].before.auth
           /\ refreshCache["alice"] = runs[r].before.refresh
    /\ NextAttemptRefreshesAgain

\* C19, amended: a failed login or refresh leaves the access-credential
\* entry as it was and caches nothing of the failed response; a live
\* refresh-token entry stays exactly as it was, the rejected token
\* included, so the next attempt refreshes with the same token; but where
\* the run found no live refresh token, its lookup has memoized None for
\* the username, with the 84 days of a refresh token, in the place of the
\* absent or expired entry.
C19_FailedAuthKeepsCachedToken ==
    /\ \A r \in Runs :
         runs[r].pc = "auth_error" /\ runs[Other(r)].pc = "call" =>
           /\ authCache["alice"] = runs[r].before.auth
           /\ refreshCache["alice"] =
                IF runs[r].before.refresh.exp > now
                THEN runs[r].before.refresh
                ELSE [val |-> <<>>, exp |-> now + 84 * 86400]
           /\ WriteIdx("authenticate") = {}
           /\ \A w \in WriteIdx("refresh_token") : log[w].val = <<>>
    /\ NextAttemptRefreshesAgain

C19_Witness ==
    /\ runs[1].pc = "auth_error"
    /\ \E a \in RunAuthReqIdx(1) : \E j \in RunAuthReqIdx(2) :
         /\ log[a].endpoint = "com.atproto.server.refreshSession"
         /\ Last(RunAuthRespIdx(1, {400, 401, 429})) < j
         /\ log[j].endpoint = "com.atproto.server.refreshSession"
         /\ log[j].auth = log[a].auth
         /\ refreshCache["alice"].val = <<"refreshJwt", 0>>

\* No run is in the middle of authenticating, and the cached pair is one
\* session's: the access credential and the refresh token of one response.
Quiescent == \A r \in Runs : runs[r].pc \in {"call", "sent", "auth_error"}
OneSession ==
    \E n \in 0..2 :
      /\ authCache["alice"].val = <<"Bearer", "accessJwt", n>>
      /\ refreshCache["alice"].val = <<"refreshJwt", n>>

\* C20 as stated: whenever no authentication is in progress and the
\* cached access credential is live, it and the cached refresh token come
\* from the same response, under every interleaving of the two runs.
C20_Original == Quiescent /\ authCache["alice"].exp > now => OneSession

\* C20, amended: with no authentication in progress, a live cached access
\* credential and the cached refresh token come from the same response
\* after the steps of a single run, and after two runs whenever the run
\* that wrote the refresh token last also stored the access credential
\* last. When the stores of the two runs overlap so that the last writers
\* differ, the cache holds the refresh token of one response and the
\* access credential of the other.
C20_OneSessionUnlessStoresOverlap ==
    Quiescent /\ authCache["alice"].exp > now =>
      /\ \A r \in Runs : runs[Other(r)].pc = "call" => OneSession
      /\ IF WriteIdx("authenticate") = {}
         THEN OneSession
         ELSE LET a == log[Last(WriteIdx("authenticate"))].run
                  t == log[Last(WriteIdx("refresh_token"))].run
              IN /\ a = t => OneSession
                 /\ a # t =>
                      /\ ~OneSession
                      /\ authCache["alice"].val
                           = <<"Bearer">> \o runs[a].resp["accessJwt"]
                      /\ refreshCache["alice"].val = runs[t].resp["refreshJwt"]

C20_Witness ==
    /\ Quiescent
    /\ authCache["alice"].exp > now
    /\ Cardinality(WriteIdx("authenticate")) = 2
    /\ log[Last(WriteIdx("authenticate"))].run
         = log[Last(WriteIdx("refresh_token"))].run
    /\ authCache["alice"].val = <<"Bearer", "accessJwt", 2>>
    /\ refreshCache["alice"].val = <<"refreshJwt", 2>>

====
